---- MODULE Spec2Model ----
(***************************************************************************)
(* A model of pymdp's JAX Agent (src/pymdp/jax/agent.py).                  *)
(*                                                                         *)
(* Python lists are sequences; a Python index i is position i + 1.         *)
(* Tensors are modelled by their shapes where only shapes decide the       *)
(* behaviour (construction, validation) and by exact rationals <<n, d>>    *)
(* where their values decide it (masking, learning).                       *)
(* Every model is built with apply_batch = True, so batch_size = 1.        *)
(***************************************************************************)
EXTENDS Integers, Sequences, FiniteSets, TLC

VARIABLES built,      \* result of the last Agent(...) call, with its arguments
          outcome,    \* result of the last sample_action call on the built agent
          actAgent,   \* an agent built with B_action_dependencies
          codec,      \* the last encode/decode round trip on actAgent
          stAgent,    \* the agent infer_states is called on
          stCall,     \* the last infer_states call
          heap,       \* agent values reachable by the caller, by identity
          lastCall,   \* the last infer_parameters call
          probs,      \* the last multiaction_probabilities call on the built agent
          polCall,    \* the agent infer_policies is called on and its last call
          fpi         \* the state-inference run in progress

vars == <<built, outcome, actAgent, codec, stAgent, stCall, heap, lastCall, probs, polCall, fpi>>

(***************************************************************************)
(* Bounds of the model.                                                    *)
(***************************************************************************)
NumFactors == 2        \* hidden-state factors of a model given to Agent(...)
MaxDepLen == 2         \* longest dependency list tried
MaxMultiAction == 3    \* largest num_controls_multi entry tried
MaxInferCalls == 2     \* infer_states calls in one run
MaxLearnCalls == 2     \* infer_parameters calls in one run

(***************************************************************************)
(* Python values.                                                          *)
(***************************************************************************)
None == [some |-> FALSE, v |-> <<>>]
Some(x) == [some |-> TRUE, v |-> x]

\* list[i] for a Python index i (negative indices count from the end)
PyValid(list, i) == -Len(list) <= i /\ i < Len(list)
PyGet(list, i) == IF i >= 0 THEN list[i + 1] ELSE list[Len(list) + i + 1]

RECURSIVE prod(_)
prod(dims) == IF dims = <<>> THEN 1 ELSE Head(dims) * prod(Tail(dims))

RECURSIVE SeqMax(_)
SeqMax(s) == IF Len(s) = 1 THEN s[1]
             ELSE LET m == SeqMax(Tail(s)) IN IF s[1] >= m THEN s[1] ELSE m

Range(s) == {s[i] : i \in DOMAIN s}

\* all sequences over S of length 0..n
RECURSIVE SeqsUpTo(_, _)
SeqsUpTo(S, n) == IF n = 0 THEN {<<>>}
                  ELSE LET shorter == SeqsUpTo(S, n - 1)
                       IN shorter \cup {Append(s, x) : s \in shorter, x \in S}

\* the first entry of errs that is not "ok", or "ok"
RECURSIVE FirstError(_)
FirstError(errs) == IF errs = <<>> THEN "ok"
                    ELSE IF Head(errs) # "ok" THEN Head(errs)
                    ELSE FirstError(Tail(errs))

(***************************************************************************)
(* utils: mixed-radix numbering of multi-actions.                          *)
(***************************************************************************)
\* utils.get_combination_index(x, dims): the last entry varies fastest
RECURSIVE get_combination_index(_, _)
get_combination_index(x, dims) ==
    IF dims = <<>> THEN 0
    ELSE x[Len(dims)] + dims[Len(dims)]
           * get_combination_index(SubSeq(x, 1, Len(dims) - 1), SubSeq(dims, 1, Len(dims) - 1))

\* utils.index_to_combination(index, dims)
RECURSIVE index_to_combination(_, _)
index_to_combination(index, dims) ==
    IF dims = <<>> THEN <<>>
    ELSE Append(index_to_combination(index \div dims[Len(dims)], SubSeq(dims, 1, Len(dims) - 1)),
                index % dims[Len(dims)])

(***************************************************************************)
(* control: policy construction.                                           *)
(***************************************************************************)
\* control.construct_policies(num_states, num_controls, policy_len, control_fac_idx)
\* with num_controls given: itertools.product over num_controls * policy_len,
\* each tuple reshaped to (policy_len, num_factors)
construct_policies(num_states, num_controls, policy_len, control_fac_idx) ==
    LET nf == Len(num_controls)
        x == [i \in 1..(nf * policy_len) |-> num_controls[((i - 1) % nf) + 1]]
    IN [p \in 1..prod(x) |->
          LET flat == index_to_combination(p - 1, x)
          IN [t \in 1..policy_len |-> [f \in 1..nf |-> flat[(t - 1) * nf + f]]]]

(***************************************************************************)
(* Agent: construction.                                                    *)
(***************************************************************************)
batch_size == 1

\* jnp.broadcast_to(x, (self.batch_size,) + x.shape), on the shape
broadcast_to(shape) == <<batch_size>> \o shape

\* Agent._construct_dependencies, for tensor (non-Distribution) inputs
_construct_dependencies(A_dependencies, B_dependencies, B_action_dependencies, num_modalities, num_factors) ==
    [A_dependencies |->
        IF A_dependencies.some THEN A_dependencies.v
        ELSE [m \in 1..num_modalities |-> [f \in 1..num_factors |-> f - 1]],
     B_dependencies |->
        IF B_dependencies.some THEN B_dependencies.v
        ELSE [f \in 1..num_factors |-> <<f - 1>>],
     B_action_dependencies |->
        IF B_action_dependencies.some THEN B_action_dependencies.v
        ELSE [f \in 1..num_factors |-> <<f - 1>>]]

\* Agent._flatten_B_action_dims: the flattened shapes and the action maps
_flatten_B_action_dims(B, B_action_dependencies, num_controls_multi) ==
    LET dimsOf(f) == [k \in 1..Len(B_action_dependencies[f]) |->
                         PyGet(num_controls_multi, B_action_dependencies[f][k])]
    IN [B |-> [f \in 1..Len(B) |->
                 IF B_action_dependencies[f] = <<>> THEN Append(B[f], 1)
                 ELSE Append(SubSeq(B[f], 1, Len(B[f]) - Len(B_action_dependencies[f])),
                             prod(dimsOf(f)))],
        action_maps |-> [f \in 1..Len(B) |->
                 IF B_action_dependencies[f] = <<>>
                 THEN [multi_dependency |-> <<>>, multi_dims |-> <<>>,
                       flat_dependency |-> <<f - 1>>, flat_dims |-> <<1>>]
                 ELSE [multi_dependency |-> B_action_dependencies[f],
                       multi_dims |-> dimsOf(f),
                       flat_dependency |-> <<f - 1>>,
                       flat_dims |-> <<prod(dimsOf(f))>>]]]

\* B_f.reshape(target_shape) keeps the number of elements
ReshapeFits(B, B_action_dependencies, num_controls_multi) ==
    \A f \in 1..Len(B) :
       /\ \A k \in 1..Len(B_action_dependencies[f]) :
             PyValid(num_controls_multi, B_action_dependencies[f][k])
       /\ B_action_dependencies[f] # <<>> =>
             /\ Len(B_action_dependencies[f]) <= Len(B[f])
             /\ prod(B[f]) = prod(_flatten_B_action_dims(B, B_action_dependencies,
                                                         num_controls_multi).B[f])

\* Agent._construct_flattend_policies
_construct_flattend_policies(policies, action_maps) ==
    [p \in 1..Len(policies) |->
       [t \in 1..Len(policies[p]) |->
          [f \in 1..Len(action_maps) |->
             IF action_maps[f].multi_dependency = <<>> THEN 0
             ELSE get_combination_index(
                    [k \in 1..Len(action_maps[f].multi_dependency) |->
                        PyGet(policies[p][t], action_maps[f].multi_dependency[k])],
                    action_maps[f].multi_dims)]]]

\* the line of __init__ that first assigns each field read at lines 267-268
FieldAssignedAt ==
    [use_inductive |-> 216, inductive_depth |-> 207, H |-> 279, inductive_threshold |-> 286]

\* reading self.<field> at `line` of __init__ raises AttributeError until it is assigned
IsAssigned(field, line) == FieldAssignedAt[field] < line

\* _validate_A without the check of pA[m]
_validate_A_without_pA(ag, m) ==
    LET deps == ag.A_dependencies[m] IN
    IF \E k \in 1..Len(deps) : ~PyValid(ag.num_states, deps[k]) THEN "IndexError"
    ELSE LET factor_dims == [k \in 1..Len(deps) |-> PyGet(ag.num_states, deps[k])] IN
         IF SubSeq(ag.A[m], 3, Len(ag.A[m])) # factor_dims THEN "AssertionError"
         ELSE IF deps = <<>> THEN "ValueError"
         ELSE IF ~(SeqMax(deps) <= ag.num_factors - 1) THEN "AssertionError"
         ELSE "ok"

\* one modality of the first loop of Agent._validate
_validate_A(ag, m) ==
    LET deps == ag.A_dependencies[m] IN
    IF \E k \in 1..Len(deps) : ~PyValid(ag.num_states, deps[k]) THEN "IndexError"
    ELSE LET factor_dims == [k \in 1..Len(deps) |-> PyGet(ag.num_states, deps[k])] IN
         IF SubSeq(ag.A[m], 3, Len(ag.A[m])) # factor_dims THEN "AssertionError"
         ELSE IF ag.pA.some /\ SubSeq(ag.pA.v[m], 3, Len(ag.pA.v[m])) # factor_dims
              THEN "AssertionError"
         ELSE IF deps = <<>> THEN "ValueError"
         ELSE IF ~(SeqMax(deps) <= ag.num_factors - 1) THEN "AssertionError"
         ELSE "ok"

\* one factor of the second loop of Agent._validate
_validate_B(ag, f) ==
    LET deps == ag.B_dependencies[f] IN
    IF \E k \in 1..Len(deps) : ~PyValid(ag.num_states, deps[k]) THEN "IndexError"
    ELSE LET factor_dims == [k \in 1..Len(deps) |-> PyGet(ag.num_states, deps[k])] IN
         IF SubSeq(ag.B[f], 3, Len(ag.B[f]) - 1) # factor_dims THEN "AssertionError"
         ELSE IF ag.pB.some /\ SubSeq(ag.pB.v[f], 3, Len(ag.pB.v[f]) - 1) # factor_dims
              THEN "AssertionError"
         ELSE IF Len(deps) # 0 /\ ~(SeqMax(deps) <= ag.num_factors - 1) THEN "AssertionError"
         ELSE "ok"

\* Agent._validate: "ok", or the exception of the first check that fails
_validate(ag) ==
    FirstError([m \in 1..ag.num_modalities |->
                   IF m > Len(ag.A_dependencies) THEN "IndexError" ELSE _validate_A(ag, m)]
               \o [f \in 1..ag.num_factors |->
                   IF f > Len(ag.B_dependencies) THEN "IndexError" ELSE _validate_B(ag, f)]
               \o [k \in 1..Len(ag.control_fac_idx) |->
                   IF ~PyValid(ag.num_controls, ag.control_fac_idx[k]) THEN "IndexError"
                   ELSE IF PyGet(ag.num_controls, ag.control_fac_idx[k]) > 1 THEN "ok"
                   ELSE "AssertionError"])

NoAgent == [num_factors |-> 0]
Raise(e) == [ok |-> FALSE, error |-> e, agent |-> NoAgent]

\* Agent.__init__ on the arguments a: the agent, or the exception that ends it.
\* The steps follow the order of the statements of __init__.
Agent_init(a) ==
    IF a.B_action_dependencies.some /\ ~a.num_controls.some
    THEN Raise("AssertionError")                                     \* lines 164-165
    ELSE
    LET num_modalities == Len(a.A)                                   \* line 168
        num_factors == Len(a.B)                                      \* line 169
        deps == _construct_dependencies(a.A_dependencies, a.B_dependencies,
                    a.B_action_dependencies, num_modalities, num_factors)
        num_controls_multi == a.num_controls                         \* line 187
        multi == a.B_action_dependencies.some                        \* line 188
    IN
    IF multi /\ ~ReshapeFits(a.B, deps.B_action_dependencies, num_controls_multi.v)
    THEN Raise("TypeError")                                          \* line 658
    ELSE
    LET policies_multi ==                                            \* lines 189-191
            construct_policies(num_controls_multi.v, num_controls_multi.v,
                               a.policy_len, a.control_fac_idx)
        flat == _flatten_B_action_dims(a.B, deps.B_action_dependencies,
                                       num_controls_multi.v)         \* line 192
        B == IF multi THEN flat.B ELSE a.B
        action_maps == IF multi THEN Some(flat.action_maps) ELSE None
        policies ==                                                  \* line 193
            IF multi THEN Some(_construct_flattend_policies(policies_multi, flat.action_maps))
            ELSE a.policies
        sampling_mode_194 == IF multi THEN "full" ELSE "unset"       \* line 194
        num_states == [f \in 1..num_factors |-> B[f][1]]             \* line 198
        num_obs == [m \in 1..num_modalities |-> a.A[m][1]]           \* line 199
        num_controls == [f \in 1..num_factors |-> B[f][Len(B[f])]]   \* line 200
        policy_len == IF a.control_algo = "vanilla" THEN a.policy_len ELSE 1  \* line 210
        sampling_mode == a.sampling_mode                             \* line 212
    IN
    IF a.control_fac_idx.some /\ a.control_fac_idx.v = <<>>
    THEN Raise("ValueError")                                         \* line 230, max([])
    ELSE IF a.control_fac_idx.some /\ ~(SeqMax(a.control_fac_idx.v) <= num_factors - 1)
    THEN Raise("AssertionError")                                     \* line 230
    ELSE
    LET control_fac_idx ==                                           \* lines 226-231
            IF a.control_fac_idx.some THEN a.control_fac_idx.v
            ELSE LET RECURSIVE pick(_)
                     pick(f) == IF f > num_factors THEN <<>>
                                ELSE IF num_controls[f] > 1 THEN <<f - 1>> \o pick(f + 1)
                                ELSE pick(f + 1)
                 IN pick(1)
        self_policies ==                                             \* lines 234-239
            IF ~policies.some
            THEN construct_policies(num_states, num_controls, policy_len, control_fac_idx)
            ELSE policies.v
        ag == [A |-> [m \in 1..num_modalities |-> broadcast_to(a.A[m])],
               B |-> [f \in 1..num_factors |-> broadcast_to(B[f])],
               pA |-> IF a.pA.some
                      THEN Some([m \in 1..Len(a.pA.v) |-> broadcast_to(a.pA.v[m])])
                      ELSE None,
               pB |-> IF a.pB.some
                      THEN Some([f \in 1..Len(a.pB.v) |-> broadcast_to(a.pB.v[f])])
                      ELSE None,
               A_dependencies |-> deps.A_dependencies,
               B_dependencies |-> deps.B_dependencies,
               B_action_dependencies |-> deps.B_action_dependencies,
               action_maps |-> action_maps,
               num_modalities |-> num_modalities,
               num_factors |-> num_factors,
               num_states |-> num_states,
               num_obs |-> num_obs,
               num_controls |-> num_controls,
               num_controls_multi |-> num_controls_multi,
               control_fac_idx |-> control_fac_idx,
               policy_len |-> policy_len,
               policies |-> self_policies,
               action_selection |-> a.action_selection,
               sampling_mode |-> sampling_mode,
               control_algo |-> a.control_algo,
               use_inductive |-> a.use_inductive,
               E |-> IF a.E.some THEN broadcast_to(a.E.v)            \* lines 262-265
                     ELSE <<batch_size, Len(self_policies)>>,
               H |-> a.H,                                            \* line 279
               I |-> IF a.use_inductive /\ a.H.some                  \* lines 267-272
                     THEN "generate_I_matrix(H, B, inductive_threshold, inductive_depth)"
                     ELSE IF a.use_inductive /\ a.I.some THEN "I"
                     ELSE "zeros_like(D)"]
    IN
    IF a.use_inductive /\ ~IsAssigned("H", 267)
    THEN Raise("AttributeError")                                     \* line 267, self.H
    ELSE IF a.use_inductive /\ a.H.some
            /\ ~(IsAssigned("inductive_threshold", 268) /\ IsAssigned("inductive_depth", 268))
    THEN Raise("AttributeError")                                     \* line 268
    ELSE IF _validate(ag) # "ok" THEN Raise(_validate(ag))           \* line 291
    ELSE [ok |-> TRUE, error |-> "", agent |-> ag]

(***************************************************************************)
(* Models given to Agent(...).  Factor f (0-based) has f + 2 states, so    *)
(* that the order of a dependency list shows in the shapes; every modality *)
(* has 2 observations.  A shape lists a tensor's axes without the batch    *)
(* axis, which the constructor adds.                                       *)
(***************************************************************************)
Factors == 0..(NumFactors - 1)
StatesOf(f) == f + 2
DepIndices == (-1)..NumFactors          \* includes a negative and a too large index
DepLists == SeqsUpTo(DepIndices, MaxDepLen)
TrailingShapes == SeqsUpTo({StatesOf(f) : f \in Factors}, MaxDepLen)
ControlDims == {0, 1}                   \* entries of num_controls for multi-actions
ControlCounts == 1..MaxMultiAction

AllFactors == [f \in 1..NumFactors |-> f - 1]
CanonA == <<2>> \o [f \in 1..NumFactors |-> StatesOf(f - 1)]
\* B[f] with one action axis of 2 actions, or with the two multi-action axes
CanonB(f, actionDims) == <<StatesOf(f - 1), StatesOf(f - 1)>> \o actionDims

DefaultArgs ==
    [A |-> <<CanonA>>, B |-> [f \in 1..NumFactors |-> CanonB(f, <<2>>)],
     pA |-> None, pB |-> None,
     A_dependencies |-> None, B_dependencies |-> None, B_action_dependencies |-> None,
     num_controls |-> None, control_fac_idx |-> None,
     policy_len |-> 1, policies |-> None, control_algo |-> "vanilla",
     action_selection |-> "deterministic", sampling_mode |-> "full",
     use_inductive |-> FALSE, H |-> None, I |-> None, E |-> None]

\* the arguments that make every B[f] depend on both control dimensions
WithMultiActions(a, trailing) ==
    [a EXCEPT !.B = [f \in 1..NumFactors |->
                        <<StatesOf(f - 1)>> \o trailing[f] \o <<2, 2>>],
              !.B_action_dependencies = Some([f \in 1..NumFactors |-> <<0, 1>>]),
              !.num_controls = Some(<<2, 2>>)]

\* one modality's A, pA and dependency list varied, after k well-formed modalities
ArgsVaryingA ==
    {[DefaultArgs EXCEPT
        !.A = [m \in 1..k |-> CanonA] \o <<(<<2>> \o shape)>>,
        !.pA = IF pa = "none" THEN None
               ELSE Some([m \in 1..k |-> CanonA]
                         \o <<(IF pa = "asA" THEN <<2>> \o shape ELSE CanonA)>>),
        !.A_dependencies = IF dep.some
                           THEN Some([m \in 1..k |-> AllFactors] \o <<dep.v>>)
                           ELSE None] :
        k \in {0, 1}, shape \in TrailingShapes, pa \in {"none", "asA", "canon"},
        dep \in {None} \cup {Some(d) : d \in DepLists}}

\* one factor's B, pB and dependency list varied, the others well-formed
ArgsVaryingB ==
    {LET trailing == [f \in 1..NumFactors |->
                         IF f = v THEN shape ELSE <<StatesOf(f - 1)>>]
         plainB == [f \in 1..NumFactors |-> <<StatesOf(f - 1)>> \o trailing[f] \o <<2>>]
         a == IF multi THEN WithMultiActions(DefaultArgs, trailing)
              ELSE [DefaultArgs EXCEPT !.B = plainB]
         flatB == [f \in 1..NumFactors |->
                      <<StatesOf(f - 1)>> \o trailing[f] \o <<(IF multi THEN 4 ELSE 2)>>]
     IN [a EXCEPT
           !.pB = IF pb = "none" THEN None
                  ELSE IF pb = "asB" THEN Some(flatB)
                  ELSE Some([f \in 1..NumFactors |-> CanonB(f, <<(IF multi THEN 4 ELSE 2)>>)]),
           !.B_dependencies = IF dep.some
                              THEN Some([f \in 1..NumFactors |->
                                           IF f = v THEN dep.v ELSE <<f - 1>>])
                              ELSE None] :
        v \in 1..NumFactors, shape \in TrailingShapes, pb \in {"none", "asB", "canon"},
        dep \in {None} \cup {Some(d) : d \in DepLists}, multi \in BOOLEAN}

\* a well-formed model with every combination of the other arguments
ArgsVaryingOptions ==
    {LET a == IF multi = "none" THEN DefaultArgs
              ELSE IF multi = "given"
              THEN WithMultiActions(DefaultArgs, [f \in 1..NumFactors |-> <<StatesOf(f - 1)>>])
              ELSE [WithMultiActions(DefaultArgs,
                                     [f \in 1..NumFactors |-> <<StatesOf(f - 1)>>])
                      EXCEPT !.num_controls = None]
     IN [a EXCEPT !.sampling_mode = sm, !.action_selection = sel,
                  !.use_inductive = ind, !.control_fac_idx = cfi] :
        multi \in {"none", "given", "no_num_controls"},
        sm \in {"full", "marginal"}, sel \in {"deterministic", "stochastic"},
        ind \in BOOLEAN,
        cfi \in {None, Some(<<>>), Some(<<0>>), Some(<<NumFactors>>)}}

\* a policy set a caller passes: the single one-step policy of action 0 everywhere
GivenPolicies == <<(<<[f \in 1..NumFactors |-> 0]>>)>>

\* goal vectors: state 0 of every factor is the goal
GoalVectors == [f \in 1..NumFactors |-> [st \in 1..StatesOf(f - 1) |-> IF st = 1 THEN 1 ELSE 0]]

\* a well-formed model with every combination of the planning arguments
ArgsVaryingPlanning ==
    {LET a == IF multi
              THEN WithMultiActions(DefaultArgs, [f \in 1..NumFactors |-> <<StatesOf(f - 1)>>])
              ELSE DefaultArgs
     IN [a EXCEPT !.policy_len = len, !.control_algo = algo, !.sampling_mode = sm,
                  !.policies = IF given THEN Some(GivenPolicies) ELSE None,
                  !.use_inductive = ind.use,
                  !.H = IF ind.H THEN Some(GoalVectors) ELSE None,
                  !.I = IF ind.I THEN Some(<<GoalVectors>>) ELSE None] :
        multi \in BOOLEAN, len \in {1, 2}, algo \in {"vanilla", "mcts"},
        sm \in {"full", "marginal"}, given \in BOOLEAN,
        ind \in [use : BOOLEAN, H : BOOLEAN, I : BOOLEAN]}

ConstructorArgs ==
    ArgsVaryingA \cup ArgsVaryingB \cup ArgsVaryingOptions \cup ArgsVaryingPlanning

(***************************************************************************)
(* Action selection.  q_pi is a vector of weights, one per policy.         *)
(***************************************************************************)
\* jnp.argmax: the first index (1-based) of the largest entry
argmax(v) == CHOOSE i \in DOMAIN v :
                /\ \A j \in DOMAIN v : v[j] <= v[i]
                /\ \A j \in DOMAIN v : j < i => v[j] < v[i]

RECURSIVE SumOver(_, _)
SumOver(v, idx) == IF idx = {} THEN 0
                   ELSE LET i == CHOOSE j \in idx : TRUE IN v[i] + SumOver(v, idx \ {i})

\* control.get_marginals: per factor, the weight of each first-step action
get_marginals(q_pi, policies, num_controls) ==
    [f \in 1..Len(num_controls) |->
       [u \in 1..num_controls[f] |->
          SumOver(q_pi, {p \in DOMAIN policies : policies[p][1][f] = u - 1})]]

\* control.sample_action: every action it can return, factor by factor
control_sample_action(q_pi, policies, num_controls, action_selection, rng_key) ==
    LET marginal == get_marginals(q_pi, policies, num_controls)
        choices(f) == IF action_selection = "deterministic" THEN {argmax(marginal[f]) - 1}
                      ELSE {u - 1 : u \in {w \in DOMAIN marginal[f] : marginal[f][w] > 0}}
    IN {act \in [1..Len(num_controls) -> 0..(SeqMax(num_controls) - 1)] :
          \A f \in 1..Len(num_controls) : act[f] \in choices(f)}

\* control.sample_policy: the first step of every policy it can pick
control_sample_policy(q_pi, policies, num_controls, action_selection, rng_key) ==
    IF action_selection = "deterministic" THEN {policies[argmax(q_pi)][1]}
    ELSE {policies[p][1] : p \in {r \in DOMAIN q_pi : q_pi[r] > 0}}

Raised(e) == [raised |-> e, selected |-> FALSE, via |-> "", action |-> <<>>]
Selected(via, act) == [raised |-> "", selected |-> TRUE, via |-> via, action |-> act]

\* sample_action raising whenever no key is given, whatever action_selection is
sample_action_key_always_required(ag, q_pi, rng_key) ==
    IF ~rng_key.some
    THEN {Raised("ValueError")}
    ELSE IF ag.sampling_mode = "marginal"
    THEN {Selected("control.sample_action", act) :
            act \in control_sample_action(q_pi, ag.policies, ag.num_controls,
                                          ag.action_selection, rng_key)}
    ELSE {Selected("control.sample_policy", act) :
            act \in control_sample_policy(q_pi, ag.policies, ag.num_controls,
                                          ag.action_selection, rng_key)}

\* Agent.sample_action: every result the call can have
sample_action(ag, q_pi, rng_key) ==
    IF ~rng_key.some /\ ag.action_selection = "stochastic"
    THEN {Raised("ValueError")}                                     \* lines 549-550
    ELSE IF ag.sampling_mode = "marginal"
    THEN {Selected("control.sample_action", act) :
            act \in control_sample_action(q_pi, ag.policies, ag.num_controls,
                                          ag.action_selection, rng_key)}
    ELSE IF ag.sampling_mode = "full"
    THEN {Selected("control.sample_policy", act) :
            act \in control_sample_policy(q_pi, ag.policies, ag.num_controls,
                                          ag.action_selection, rng_key)}
    ELSE {Raised("UnboundLocalError")}                              \* line 561

\* policy posteriors tried: all the mass on one policy, or spread evenly
PolicyPosteriors(ag) ==
    {[p \in DOMAIN ag.policies |-> IF p = q THEN 1 ELSE 0] : q \in DOMAIN ag.policies}
    \cup {[p \in DOMAIN ag.policies |-> 1]}

RngKeys == {None, Some(<<0>>)}

\* row x sorts before row y (jnp.unique sorts the rows lexicographically)
LexLess(x, y) == \E k \in DOMAIN x : x[k] < y[k] /\ \A j \in 1..(k - 1) : x[j] = y[j]

\* Agent.unique_multiactions: the distinct first steps of the policies, sorted,
\* cut or padded with rows of -1 to prod(num_controls) rows
unique_multiactions(ag) ==
    LET size == prod(ag.num_controls)
        firsts == {ag.policies[p][1] : p \in DOMAIN ag.policies}
    IN [i \in 1..size |->
          IF i <= Cardinality(firsts)
          THEN CHOOSE x \in firsts : Cardinality({y \in firsts : LexLess(y, x)}) = i - 1
          ELSE [f \in 1..ag.num_factors |-> -1]]

\* jnp.outer(a, b).reshape(-1)
outer(a, b) == [i \in 1..(Len(a) * Len(b)) |->
                  a[((i - 1) \div Len(b)) + 1] * b[((i - 1) % Len(b)) + 1]]

\* jtu.tree_reduce(outer, marginals): a left fold over the factors
RECURSIVE tree_reduce_outer(_)
tree_reduce_outer(marginals) ==
    IF Len(marginals) = 1 THEN marginals[1]
    ELSE outer(tree_reduce_outer(SubSeq(marginals, 1, Len(marginals) - 1)),
               marginals[Len(marginals)])

\* multiaction_probabilities giving each multi-action the weight of one policy
\* only (a maximum where the code sums)
multiaction_probabilities_max(ag, q_pi) ==
    IF ag.sampling_mode = "marginal"
    THEN [raised |-> "",
          marginals |-> tree_reduce_outer(get_marginals(q_pi, ag.policies, ag.num_controls))]
    ELSE [raised |-> "",
          marginals |->
             [i \in DOMAIN unique_multiactions(ag) |->
                LET hits == {p \in DOMAIN ag.policies :
                                ag.policies[p][1] = unique_multiactions(ag)[i]}
                IN IF hits = {} THEN 0
                   ELSE q_pi[CHOOSE p \in hits : \A r \in hits : q_pi[r] <= q_pi[p]]]]

\* Agent.multiaction_probabilities
multiaction_probabilities(ag, q_pi) ==
    IF ag.sampling_mode = "marginal"
    THEN [raised |-> "",
          marginals |-> tree_reduce_outer(get_marginals(q_pi, ag.policies, ag.num_controls))]
    ELSE IF ag.sampling_mode = "full"
    THEN [raised |-> "",
          marginals |->
             [i \in DOMAIN unique_multiactions(ag) |->
                SumOver(q_pi, {p \in DOMAIN ag.policies :
                                  ag.policies[p][1] = unique_multiactions(ag)[i]})]]
    ELSE [raised |-> "UnboundLocalError", marginals |-> <<>>]       \* line 589

\* the action vectors within num_controls
ActionsWithinControls(num_controls) ==
    {x \in [1..Len(num_controls) -> 0..(SeqMax(num_controls) - 1)] :
        \A k \in 1..Len(num_controls) : x[k] < num_controls[k]}

\* policy weights tried: those of PolicyPosteriors and unequal weights
PolicyWeights(ag) ==
    PolicyPosteriors(ag) \cup {[p \in DOMAIN ag.policies |-> p % 3]}

(***************************************************************************)
(* Construction and action selection as a state machine.                   *)
(***************************************************************************)
\* the values of the variables before the operation they record has run
Idle == [stage |-> "idle", src |-> <<>>, mid |-> <<>>, out |-> <<>>]

NotInferred == [n |-> 0, mask |-> None, observations |-> <<>>, prior |-> <<>>,
                A_before |-> <<>>, A |-> <<>>, o_vec |-> <<>>, qs |-> <<>>]

NotLearned == [n |-> 0, self |-> 0, agent |-> 0, lr_pA |-> <<0, 1>>, lr_pB |-> <<0, 1>>,
               beliefs |-> <<>>, outcomes |-> <<>>, actions |-> <<>>]

NoProbs == [called |-> FALSE, q_pi |-> <<>>, result |-> [raised |-> "", marginals |-> <<>>]]
NoPolicyCall == [n |-> 0]
NoInference == [stage |-> "none"]

NotBuilt == [called |-> FALSE, args |-> DefaultArgs, result |-> Raise("")]
NoOutcome == [called |-> FALSE, q_pi |-> <<>>, rng_key |-> None, result |-> Raised("")]

InitAgent ==
    /\ built = NotBuilt
    /\ outcome = NoOutcome
    /\ actAgent = NoAgent
    /\ codec = Idle
    /\ stAgent = NoAgent
    /\ stCall = NotInferred
    /\ heap = <<>>
    /\ lastCall = NotLearned
    /\ probs = NoProbs
    /\ polCall = NoPolicyCall
    /\ fpi = NoInference

\* agent = Agent(A, B, ...)
Construct ==
    /\ ~built.called
    /\ \E a \in ConstructorArgs :
          built' = [called |-> TRUE, args |-> a, result |-> Agent_init(a)]
    /\ UNCHANGED <<outcome, actAgent, codec, stAgent, stCall, heap, lastCall, probs, polCall, fpi>>

\* agent.sample_action(q_pi, rng_key); no call changes the agent, so a run
\* records one call on the agent it built
SampleAction ==
    /\ built.called /\ built.result.ok
    /\ ~outcome.called /\ ~probs.called
    /\ \E q_pi \in PolicyPosteriors(built.result.agent), rng_key \in RngKeys :
         \E r \in sample_action(built.result.agent, q_pi, rng_key) :
            outcome' = [called |-> TRUE, q_pi |-> q_pi, rng_key |-> rng_key, result |-> r]
    /\ UNCHANGED <<built, actAgent, codec, stAgent, stCall, heap, lastCall, probs, polCall, fpi>>

\* agent.multiaction_probabilities(q_pi)
MultiactionProbabilities ==
    /\ built.called /\ built.result.ok
    /\ ~outcome.called /\ ~probs.called
    /\ \E q_pi \in PolicyWeights(built.result.agent) :
          probs' = [called |-> TRUE, q_pi |-> q_pi,
                    result |-> multiaction_probabilities(built.result.agent, q_pi)]
    /\ UNCHANGED <<built, outcome, actAgent, codec, stAgent, stCall, heap, lastCall, polCall, fpi>>

NextAgent == Construct \/ SampleAction \/ MultiactionProbabilities

SpecAgent == InitAgent /\ [][NextAgent]_vars

(***************************************************************************)
(* Section 4.6 of the specification, stated on the constructor's arguments *)
(* (independently of _validate).                                           *)
(***************************************************************************)
DeclaredDeps(a) == _construct_dependencies(a.A_dependencies, a.B_dependencies,
                       a.B_action_dependencies, Len(a.A), Len(a.B))
InRange(deps, a) == \A k \in 1..Len(deps) : 0 <= deps[k] /\ deps[k] < Len(a.B)
\* the state counts of the factors of an in-range dependency list, in order
StateCounts(deps, a) == [k \in 1..Len(deps) |-> a.B[deps[k] + 1][1]]
\* the number of action axes of the B[f] given to the constructor
ActionAxes(a, f) == IF a.B_action_dependencies.some
                    THEN Len(a.B_action_dependencies.v[f]) ELSE 1
\* the axes of B[f] after the next-state axis and before the action axes
StateAxesB(a, f) == SubSeq(a.B[f], 2, Len(a.B[f]) - ActionAxes(a, f))

MismatchA(a, m) ==
    LET deps == DeclaredDeps(a).A_dependencies[m] IN
    /\ InRange(deps, a)
    /\ \/ SubSeq(a.A[m], 2, Len(a.A[m])) # StateCounts(deps, a)
       \/ a.pA.some /\ SubSeq(a.pA.v[m], 2, Len(a.pA.v[m])) # StateCounts(deps, a)

MismatchB(a, f) ==
    LET deps == DeclaredDeps(a).B_dependencies[f] IN
    /\ InRange(deps, a)
    /\ \/ StateAxesB(a, f) # StateCounts(deps, a)
       \/ a.pB.some /\ SubSeq(a.pB.v[f], 2, Len(a.pB.v[f]) - 1) # StateCounts(deps, a)

Mismatch(a) == \/ \E m \in 1..Len(a.A) : MismatchA(a, m)
               \/ \E f \in 1..Len(a.B) : MismatchB(a, f)

\* every check (a)-(d) of section 4.6 passes and no other argument is at fault
WellFormed(a) ==
    /\ \A m \in 1..Len(a.A) : InRange(DeclaredDeps(a).A_dependencies[m], a)
    /\ \A f \in 1..Len(a.B) : InRange(DeclaredDeps(a).B_dependencies[f], a)
    /\ ~Mismatch(a)
    /\ ~a.control_fac_idx.some
    /\ ~a.use_inductive
    /\ a.B_action_dependencies.some => a.num_controls.some

HasEmptyDependency(a) ==
    \/ \E m \in 1..Len(a.A) : DeclaredDeps(a).A_dependencies[m] = <<>>
    \/ \E f \in 1..Len(a.B) : DeclaredDeps(a).B_dependencies[f] = <<>>

(***************************************************************************)
(* Claims about construction and action selection (SpecAgent).             *)
(***************************************************************************)
\* C6: construction fails, and yields no agent, whenever the state axes of some
\* A[m] or supplied pA[m], or of some B[f] or supplied pB[f], differ from the
\* state counts of the factors of its dependency list, taken in order.
C6_MismatchFailsConstruction ==
    (built.called /\ Mismatch(built.args)) =>
        (~built.result.ok /\ built.result.agent = NoAgent)

\* C6 witness: a construction that failed on a supplied pA[m] whose state axes
\* do not match, while those of A[m] do
C6_Witness ==
    /\ built.called /\ ~built.result.ok /\ built.result.error = "AssertionError"
    /\ built.args.pA.some
    /\ \E m \in 1..Len(built.args.A) :
          /\ MismatchA(built.args, m)
          /\ SubSeq(built.args.A[m], 2, Len(built.args.A[m]))
                = StateCounts(DeclaredDeps(built.args).A_dependencies[m], built.args)

\* C7: every dependency index of a constructed agent is within [0, num_factors).
C7_DependencyIndicesInRange ==
    (built.called /\ built.result.ok) =>
        LET ag == built.result.agent IN
        /\ \A m \in 1..ag.num_modalities : InRange(ag.A_dependencies[m], built.args)
        /\ \A f \in 1..ag.num_factors : InRange(ag.B_dependencies[f], built.args)

\* C8: a model with an empty dependency list whose other checks pass is
\* validated and an agent is returned.
C8_EmptyDependencyIsValid ==
    (built.called /\ WellFormed(built.args) /\ HasEmptyDependency(built.args)) =>
        built.result.ok

\* C9: sample_action without a random key raises the input-validation error
\* exactly when action_selection is 'stochastic'; nothing is selected when it
\* raises; a 'deterministic' agent called without a key returns an action, one
\* index below num_controls[f] for each factor f.
C9_KeyRequiredIffStochastic ==
    (outcome.called /\ ~outcome.rng_key.some) =>
        LET ag == built.result.agent
            r == outcome.result IN
        /\ (r.raised = "ValueError") <=> (ag.action_selection = "stochastic")
        /\ (r.raised # "") => ~r.selected
        /\ (ag.action_selection = "deterministic") =>
               /\ r.selected /\ r.raised = ""
               /\ Len(r.action) = ag.num_factors
               /\ \A f \in 1..ag.num_factors :
                     0 <= r.action[f] /\ r.action[f] < ag.num_controls[f]

\* C9 witness: a stochastic agent was called without a key and raised
C9_Witness ==
    /\ outcome.called /\ ~outcome.rng_key.some
    /\ built.result.agent.action_selection = "stochastic"
    /\ outcome.result.raised = "ValueError"

\* C10: an agent constructed with B_action_dependencies has sampling_mode 'full'
\* whatever sampling_mode was passed, and sample_action on it selects over
\* whole policies.
C10_MultiActionsSampleFull ==
    (built.called /\ built.result.ok /\ built.args.B_action_dependencies.some) =>
        /\ built.result.agent.sampling_mode = "full"
        /\ (outcome.called /\ outcome.result.selected) =>
               outcome.result.via = "control.sample_policy"

\* C11: constructing an agent with use_inductive = True and goal vectors H
\* succeeds, the agent's I is the structure generated from H, B,
\* inductive_threshold and inductive_depth, and every field the constructor reads
\* while computing I (lines 267-268) is assigned before it is read.
C11_InductiveConstructionSucceeds ==
    (/\ built.called /\ built.args.use_inductive /\ built.args.H.some
     /\ WellFormed([built.args EXCEPT !.use_inductive = FALSE])) =>
        /\ built.result.ok
        /\ built.result.agent.I
              = "generate_I_matrix(H, B, inductive_threshold, inductive_depth)"
        /\ IsAssigned("use_inductive", 267) /\ IsAssigned("H", 267)
        /\ IsAssigned("inductive_threshold", 268) /\ IsAssigned("inductive_depth", 268)

\* C16: when the constructor builds the policy set itself, every policy of the
\* agent has as many steps as the agent's stored policy_len (the policy_len
\* argument for 'vanilla', 1 for 'mcts') and one action index per factor, with
\* or without B_action_dependencies.
C16_BuiltPoliciesMatchPolicyLen ==
    (built.called /\ built.result.ok /\ ~built.args.policies.some) =>
        LET ag == built.result.agent IN
        /\ ag.policy_len = IF built.args.control_algo = "vanilla"
                           THEN built.args.policy_len ELSE 1
        /\ \A p \in DOMAIN ag.policies :
              /\ Len(ag.policies[p]) = ag.policy_len
              /\ \A t \in DOMAIN ag.policies[p] : Len(ag.policies[p][t]) = ag.num_factors

\* C18: a policies argument is stored as the agent's policy set, also when
\* B_action_dependencies is supplied; the default E has one entry per stored
\* policy.
C18_PoliciesArgumentIsStored ==
    (built.called /\ built.result.ok) =>
        LET ag == built.result.agent IN
        /\ built.args.policies.some => ag.policies = built.args.policies.v
        /\ ~built.args.E.some => ag.E = <<batch_size, Len(ag.policies)>>

\* the sum of the entries of a vector
SumAll(v) == SumOver(v, DOMAIN v)

RECURSIVE Power(_, _)
Power(x, n) == IF n = 0 THEN 1 ELSE x * Power(x, n - 1)

\* 'full' mode: every policy is counted in exactly one entry, that of its first
\* step; each entry holds the weight of the policies with that first step; the
\* padding entries hold 0
FullModeCountsEachPolicyOnce ==
    LET ag == built.result.agent
        unique == unique_multiactions(ag)
        r == probs.result.marginals IN
    /\ Len(r) = prod(ag.num_controls)
    /\ \A p \in DOMAIN ag.policies :
          Cardinality({i \in DOMAIN unique : unique[i] = ag.policies[p][1]}) = 1
    /\ \A i \in DOMAIN unique :
          /\ r[i] = SumOver(probs.q_pi, {p \in DOMAIN ag.policies :
                                            ag.policies[p][1] = unique[i]})
          /\ (\A f \in DOMAIN unique[i] : unique[i][f] = -1) => r[i] = 0

\* 'marginal' mode: the entry of every multi-action is the product of the
\* first-step marginals of its actions
MarginalModeIsProduct ==
    LET ag == built.result.agent
        r == probs.result.marginals
        marginal(f, u) == SumOver(probs.q_pi, {p \in DOMAIN ag.policies :
                                                 ag.policies[p][1][f] = u})
        RECURSIVE product(_, _)
        product(act, f) == IF f > Len(act) THEN 1
                           ELSE marginal(f, act[f]) * product(act, f + 1) IN
    /\ Len(r) = prod(ag.num_controls)
    /\ \A act \in ActionsWithinControls(ag.num_controls) :
          r[get_combination_index(act, ag.num_controls) + 1] = product(act, 1)

\* C17 as stated: multiaction_probabilities counts every policy once in 'full'
\* mode and multiplies the marginals in 'marginal' mode, and in both modes the
\* result sums to the sum of q_pi.
C17_MassEqualsSumOfPosterior ==
    probs.called =>
        /\ probs.result.raised = ""
        /\ built.result.agent.sampling_mode = "full" => FullModeCountsEachPolicyOnce
        /\ built.result.agent.sampling_mode = "marginal" => MarginalModeIsProduct
        /\ SumAll(probs.result.marginals) = SumAll(probs.q_pi)

\* C17 as amended: as stated, except that in 'marginal' mode the result sums to
\* the sum of q_pi raised to the number of factors; that is the sum of q_pi
\* when q_pi sums to 1 (or there is one factor).
C17_MassIsConserved ==
    probs.called =>
        LET ag == built.result.agent
            total == SumAll(probs.result.marginals) IN
        /\ probs.result.raised = ""
        /\ ag.sampling_mode = "full" =>
              (FullModeCountsEachPolicyOnce /\ total = SumAll(probs.q_pi))
        /\ ag.sampling_mode = "marginal" =>
              /\ MarginalModeIsProduct
              /\ total = Power(SumAll(probs.q_pi), ag.num_factors)
              /\ SumAll(probs.q_pi) = 1 => total = 1

\* C17 witness: in 'full' mode, two policies of positive weight share a first
\* step and the result has a padding entry
C17_Witness ==
    /\ probs.called /\ built.result.agent.sampling_mode = "full"
    /\ \E p, q \in DOMAIN built.result.agent.policies :
          /\ p # q /\ probs.q_pi[p] > 0 /\ probs.q_pi[q] > 0
          /\ built.result.agent.policies[p][1] = built.result.agent.policies[q][1]
    /\ \E i \in DOMAIN probs.result.marginals :
          unique_multiactions(built.result.agent)[i]
             = [f \in 1..built.result.agent.num_factors |-> -1]
    /\ SumAll(probs.result.marginals) = SumAll(probs.q_pi)

(***************************************************************************)
(* Multi-action encoding.                                                  *)
(***************************************************************************)
\* action_multi.at[..., multi_dependency].set(action_multi_f)
AtSet(action_multi, multi_dependency, action_multi_f) ==
    [k \in 1..Len(action_multi) |->
        IF \E j \in 1..Len(multi_dependency) : multi_dependency[j] = k - 1
        THEN action_multi_f[CHOOSE j \in 1..Len(multi_dependency) : multi_dependency[j] = k - 1]
        ELSE action_multi[k]]

\* the loop of Agent.decode_multi_actions from factor f on
RECURSIVE decode_from(_, _, _, _)
decode_from(action_maps, action, action_multi, f) ==
    IF f > Len(action_maps) THEN action_multi
    ELSE IF action_maps[f].multi_dependency = <<>>
    THEN decode_from(action_maps, action, action_multi, f + 1)
    ELSE decode_from(action_maps, action,
                     AtSet(action_multi, action_maps[f].multi_dependency,
                           index_to_combination(action[f], action_maps[f].multi_dims)),
                     f + 1)

\* decode_multi_actions writing only the first control dimension of each group
decode_first_dimension_only(ag, action) ==
    IF ~ag.action_maps.some THEN action
    ELSE [k \in 1..Len(ag.num_controls_multi.v) |->
            IF \E f \in 1..Len(ag.action_maps.v) :
                  /\ ag.action_maps.v[f].multi_dependency # <<>>
                  /\ ag.action_maps.v[f].multi_dependency[1] = k - 1
            THEN LET f == CHOOSE g \in 1..Len(ag.action_maps.v) :
                            /\ ag.action_maps.v[g].multi_dependency # <<>>
                            /\ ag.action_maps.v[g].multi_dependency[1] = k - 1
                 IN index_to_combination(action[f], ag.action_maps.v[f].multi_dims)[1]
            ELSE 0]

\* Agent.decode_multi_actions
decode_multi_actions(ag, action) ==
    IF ~ag.action_maps.some THEN action
    ELSE decode_from(ag.action_maps.v, action,
                     [k \in 1..Len(ag.num_controls_multi.v) |-> 0], 1)

\* encode_multi_actions numbering each group by its first control dimension alone
encode_first_dimension_only(ag, action_multi) ==
    IF ~ag.action_maps.some THEN action_multi
    ELSE [f \in 1..Len(ag.num_controls) |->
            IF ag.action_maps.v[f].multi_dependency = <<>> THEN 0
            ELSE PyGet(action_multi, ag.action_maps.v[f].multi_dependency[1])]

\* Agent.encode_multi_actions
encode_multi_actions(ag, action_multi) ==
    IF ~ag.action_maps.some THEN action_multi
    ELSE [f \in 1..Len(ag.num_controls) |->
            IF ag.action_maps.v[f].multi_dependency = <<>> THEN 0
            ELSE get_combination_index(
                   [k \in 1..Len(ag.action_maps.v[f].multi_dependency) |->
                       PyGet(action_multi, ag.action_maps.v[f].multi_dependency[k])],
                   ag.action_maps.v[f].multi_dims)]

\* dependency groups: lists of distinct control dimensions
ActionGroups == {g \in SeqsUpTo(ControlDims, MaxDepLen) :
                    \A i, j \in 1..Len(g) : i # j => g[i] # g[j]}

\* a well-formed model whose B[f] has one action axis per entry of groups[f]
MultiActionArgs(num_controls_multi, groups) ==
    [DefaultArgs EXCEPT
       !.B = [f \in 1..NumFactors |->
                <<StatesOf(f - 1), StatesOf(f - 1)>>
                \o [k \in 1..Len(groups[f]) |-> num_controls_multi[groups[f][k] + 1]]],
       !.B_action_dependencies = Some(groups),
       !.num_controls = Some(num_controls_multi)]

\* the action vectors within the bounds given by dims
ActionsWithin(dims) ==
    {x \in [1..Len(dims) -> 0..(SeqMax(dims) - 1)] : \A k \in 1..Len(dims) : x[k] < dims[k]}

InitActions ==
    /\ actAgent = NoAgent
    /\ codec = Idle
    /\ built = NotBuilt
    /\ outcome = NoOutcome
    /\ stAgent = NoAgent
    /\ stCall = NotInferred
    /\ heap = <<>>
    /\ lastCall = NotLearned
    /\ probs = NoProbs
    /\ polCall = NoPolicyCall
    /\ fpi = NoInference

\* agent = Agent(A, B, B_action_dependencies = groups, num_controls = ...)
BuildMultiActionAgent ==
    /\ actAgent = NoAgent
    /\ \E ncm \in [1..Cardinality(ControlDims) -> ControlCounts],
          groups \in [1..NumFactors -> ActionGroups] :
          /\ Agent_init(MultiActionArgs(ncm, groups)).ok
          /\ actAgent' = Agent_init(MultiActionArgs(ncm, groups)).agent
    /\ UNCHANGED <<codec, built, outcome, stAgent, stCall, heap, lastCall, probs, polCall, fpi>>

\* agent.encode_multi_actions(a), a within num_controls_multi
EncodeMulti ==
    /\ actAgent # NoAgent /\ codec.stage = "idle"
    /\ \E a \in ActionsWithin(actAgent.num_controls_multi.v) :
          codec' = [stage |-> "encoded", src |-> a,
                    mid |-> encode_multi_actions(actAgent, a), out |-> <<>>]
    /\ UNCHANGED <<actAgent, built, outcome, stAgent, stCall, heap, lastCall, probs, polCall, fpi>>

\* agent.decode_multi_actions(...) of the flat action just encoded
DecodeEncoded ==
    /\ codec.stage = "encoded"
    /\ codec' = [codec EXCEPT !.stage = "encoded_decoded",
                              !.out = decode_multi_actions(actAgent, codec.mid)]
    /\ UNCHANGED <<actAgent, built, outcome, stAgent, stCall, heap, lastCall, probs, polCall, fpi>>

\* agent.decode_multi_actions(i), i within num_controls
DecodeFlat ==
    /\ actAgent # NoAgent /\ codec.stage = "idle"
    /\ \E i \in ActionsWithin(actAgent.num_controls) :
          codec' = [stage |-> "decoded", src |-> i,
                    mid |-> decode_multi_actions(actAgent, i), out |-> <<>>]
    /\ UNCHANGED <<actAgent, built, outcome, stAgent, stCall, heap, lastCall, probs, polCall, fpi>>

\* agent.encode_multi_actions(...) of the multi-action just decoded
EncodeDecoded ==
    /\ codec.stage = "decoded"
    /\ codec' = [codec EXCEPT !.stage = "decoded_encoded",
                              !.out = encode_multi_actions(actAgent, codec.mid)]
    /\ UNCHANGED <<actAgent, built, outcome, stAgent, stCall, heap, lastCall, probs, polCall, fpi>>

NextActions == \/ BuildMultiActionAgent
               \/ EncodeMulti
               \/ DecodeEncoded
               \/ DecodeFlat
               \/ EncodeDecoded

SpecActions == InitActions /\ [][NextActions]_vars

(***************************************************************************)
(* Claims about multi-action encoding (SpecActions).                       *)
(***************************************************************************)
GroupOf(f) == actAgent.action_maps.v[f].multi_dependency
\* control dimension k (0-based) belongs to the dependency group of some factor
Covered(k) == \E f \in 1..actAgent.num_factors : k \in Range(GroupOf(f))
\* the number of factors whose dependency group holds control dimension k
GroupsHolding(k) == Cardinality({f \in 1..actAgent.num_factors : k \in Range(GroupOf(f))})
GroupsDisjoint == \A k \in ControlDims : GroupsHolding(k) <= 1
\* the value the flat action i gives control dimension GroupOf(f)[j]
DigitOf(i, f, j) == index_to_combination(i[f], actAgent.action_maps.v[f].multi_dims)[j]
\* the factors of the flat action i give every shared control dimension one value
AgreeOnShared(i) ==
    \A f, g \in 1..actAgent.num_factors :
       \A j \in 1..Len(GroupOf(f)), k \in 1..Len(GroupOf(g)) :
          GroupOf(f)[j] = GroupOf(g)[k] => DigitOf(i, f, j) = DigitOf(i, g, k)

\* C2 as stated: decode_multi_actions(encode_multi_actions(a)) = a for every
\* multi-action a within num_controls_multi, whatever the dependency groups.
C2_DecodeEncodeIsIdentity ==
    codec.stage = "encoded_decoded" => codec.out = codec.src

\* C2 as amended: decode_multi_actions(encode_multi_actions(a)) agrees with a on
\* every control dimension that belongs to some dependency group (to one or to
\* several) and is 0 on every control dimension that belongs to none.
C2_DecodeEncodeOnCoveredDimensions ==
    codec.stage = "encoded_decoded" =>
        /\ Len(codec.out) = Len(codec.src)
        /\ \A k \in 1..Len(codec.src) :
              codec.out[k] = IF Covered(k - 1) THEN codec.src[k] ELSE 0

\* C2 witness: a round trip that kept a dimension held by two groups and
\* zeroed a dimension held by none
C2_Witness ==
    /\ codec.stage = "encoded_decoded"
    /\ \E k \in 1..Len(codec.src) :
          GroupsHolding(k - 1) >= 2 /\ codec.src[k] > 0 /\ codec.out[k] = codec.src[k]
    /\ \E k \in 1..Len(codec.src) :
          ~Covered(k - 1) /\ codec.src[k] > 0 /\ codec.out[k] = 0

\* C3 as stated: encode_multi_actions(decode_multi_actions(i)) = i for every
\* flat action i within num_controls, whatever the dependency groups.
C3_EncodeDecodeIsIdentity ==
    codec.stage = "decoded_encoded" => codec.out = codec.src

\* C3 as amended: encode_multi_actions(decode_multi_actions(i)) = i exactly for
\* the flat actions i whose factors give every shared control dimension the
\* same value; so for every i when no two groups share a control dimension.
C3_EncodeDecodeOnAgreeingActions ==
    codec.stage = "decoded_encoded" =>
        /\ (codec.out = codec.src) <=> AgreeOnShared(codec.src)
        /\ GroupsDisjoint => codec.out = codec.src

\* C3 witness: a round trip of a non-zero flat action through two disjoint,
\* non-empty groups, one of them of two control dimensions in decreasing order
C3_Witness ==
    /\ codec.stage = "decoded_encoded"
    /\ GroupsDisjoint
    /\ \E f \in 1..actAgent.num_factors :
          Len(GroupOf(f)) >= 1 /\ codec.src[f] > 1 /\ codec.out[f] = codec.src[f]
    /\ \E f, g \in 1..actAgent.num_factors :
          f # g /\ GroupOf(f) # <<>> /\ GroupOf(g) # <<>>

(***************************************************************************)
(* Exact arithmetic on tensor entries: a rational is <<numerator,          *)
(* denominator>> in lowest terms with a positive denominator.              *)
(***************************************************************************)
RECURSIVE GCD(_, _)
GCD(x, y) == IF y = 0 THEN x ELSE GCD(y, x % y)

Abs(x) == IF x < 0 THEN -x ELSE x
\* the element of a one-element set; the operations below bind each operand
\* once (a, b) and compute from the bound values
Only(S) == CHOOSE r \in S : TRUE
Lowest(p) == LET g == GCD(Abs(p[1]), p[2]) IN <<p[1] \div g, p[2] \div g>>
Frac(n, d) == Only({Lowest(p) : p \in {<<n, d>>}})
FAdd(x, y) == Only({Frac(a[1] * b[2] + b[1] * a[2], a[2] * b[2]) : a \in {x}, b \in {y}})
FMul(x, y) == Only({Frac(a[1] * b[1], a[2] * b[2]) : a \in {x}, b \in {y}})
FDiv(x, y) == Only({Frac(a[1] * b[2], a[2] * b[1]) : a \in {x}, b \in {y}})
FInt(k) == <<k, 1>>
FLess(x, y) == \E a \in {x}, b \in {y} : a[1] * b[2] < b[1] * a[2]

\* the vector v with its entries computed: a tuple
Vec(v) == v \o <<>>

RECURSIVE FSum(_)
FSum(xs) == IF xs = <<>> THEN FInt(0) ELSE FAdd(Head(xs), FSum(Tail(xs)))

RECURSIVE FProd(_)
FProd(xs) == IF xs = <<>> THEN FInt(1) ELSE FMul(Head(xs), FProd(Tail(xs)))

(***************************************************************************)
(* State inference.  A[m] is a matrix indexed by observation and state of   *)
(* the one hidden-state factor; a mask entry is 0 or 1.  A posterior is     *)
(* computed exactly: softmax of a sum of logarithms is the normalised       *)
(* product of their arguments.                                              *)
(***************************************************************************)
\* nn.one_hot(o, num_obs)
one_hot(o, n) == [k \in 1..n |-> IF k - 1 = o THEN FInt(1) ELSE FInt(0)]

\* m * x + (1 - m) * jnp.ones_like(x) / num_obs, for one entry x
Blend(m, x, num_obs) ==
    FAdd(FMul(FInt(m), x), FDiv(FMul(FInt(1 - m), FInt(1)), FInt(num_obs)))

\* the loop of lines 392-394 with the weights of the blend exchanged
RECURSIVE mask_from_swapped(_, _, _, _, _)
mask_from_swapped(A, o_vec, mask, num_obs, i) ==
    IF i > Len(mask) THEN [A |-> A, o_vec |-> o_vec]
    ELSE mask_from_swapped(
                   [A EXCEPT ![i] = [o \in DOMAIN A[i] |-> [st \in DOMAIN A[i][o] |->
                                        Blend(1 - mask[i], A[i][o][st], num_obs[i])]]],
                   [o_vec EXCEPT ![i] = [k \in DOMAIN o_vec[i] |->
                                            Blend(1 - mask[i], o_vec[i][k], num_obs[i])]],
                   mask, num_obs, i + 1)

\* the loop of lines 392-394 from modality i on; A is the list self.A itself
\* (line 390 binds the name A to it), o_vec the list built at line 386
RECURSIVE mask_from(_, _, _, _, _)
mask_from(A, o_vec, mask, num_obs, i) ==
    IF i > Len(mask) THEN [A |-> A, o_vec |-> o_vec]
    ELSE mask_from([A EXCEPT ![i] = [o \in DOMAIN A[i] |-> [st \in DOMAIN A[i][o] |->
                                        Blend(mask[i], A[i][o][st], num_obs[i])]]],
                   [o_vec EXCEPT ![i] = [k \in DOMAIN o_vec[i] |->
                                            Blend(mask[i], o_vec[i][k], num_obs[i])]],
                   mask, num_obs, i + 1)

\* INFERENCE_ALGO_PARAMS (dF and dF_tol as rationals)
INFERENCE_ALGO_PARAMS ==
    [fpi |-> [num_iter |-> 16, dF |-> FInt(1), dF_tol |-> Frac(1, 1000)]]

\* the num_iter that infer_states hands to inference.update_posterior_states,
\* were it the module's default instead of the agent's own parameters
num_iter_of_module_default(self) == INFERENCE_ALGO_PARAMS.fpi.num_iter

\* the num_iter that infer_states hands to inference.update_posterior_states
num_iter_passed(self) == self.inference_algo_params.num_iter

\* maths.log_stable clamps its argument at a small positive value before the
\* logarithm; 1/16 stands for that value
MinVal == Frac(1, 16)
clamp(x) == Only({IF FLess(a, MinVal) THEN MinVal ELSE a : a \in {x}})

\* the likelihood of state st under modality m: sum over o of o_vec[m][o] * A[m][o][st]
likelihood(A_m, o_m, st) == FSum([o \in DOMAIN A_m |-> FMul(o_m[o], A_m[o][st])])

normalise(w) == LET total == FSum(w) IN Vec([st \in DOMAIN w |-> FDiv(w[st], total)])

\* the joint likelihood of the observations for every state: the sum over the
\* modalities of the clamped log-likelihoods, as a product
joint_likelihood(A, o_vec, states) ==
    Vec([st \in states |->
            FProd([m \in DOMAIN A |-> clamp(likelihood(A[m], o_vec[m], st))])])

\* one fixed-point iteration for the one factor from the joint likelihood ll:
\* softmax(log likelihood + log prior)
fpi_update(ll, prior, q) ==
    normalise(Vec([st \in DOMAIN prior |-> FMul(clamp(prior[st]), ll[st])]))

fpi_step(A, o_vec, prior, q) ==
    fpi_update(joint_likelihood(A, o_vec, DOMAIN prior), prior, q)

\* inference.update_posterior_states(A, B, o_vec, past_actions, prior, num_iter =
\* ..., method = 'fpi'): num_iter iterations from the prior
RECURSIVE fpi_iterate(_, _, _, _, _)
fpi_iterate(A, o_vec, prior, q, k) ==
    IF k = 0 THEN q ELSE fpi_iterate(A, o_vec, prior, fpi_step(A, o_vec, prior, q), k - 1)

update_posterior_states(A, o_vec, prior, num_iter) ==
    fpi_iterate(A, o_vec, prior, prior, num_iter)

\* lines 385-394 of Agent.infer_states: the agent after them (its list self.A is
\* written in place) and the A and o_vec handed on
prepare(self, observations, mask) ==
    LET o_vec == [m \in 1..Len(observations) |-> one_hot(observations[m], self.num_obs[m])]
        masked == IF mask.some THEN mask_from(self.A, o_vec, mask.v, self.num_obs, 1)
                  ELSE [A |-> self.A, o_vec |-> o_vec]
    IN [self |-> [self EXCEPT !.A = masked.A],
        A |-> masked.A,
        o_vec |-> masked.o_vec]

\* Agent.infer_states: the agent after the call, the A and o_vec handed to
\* inference.update_posterior_states, and the posterior it returns
infer_states(self, observations, empirical_prior, mask) ==
    LET p == prepare(self, observations, mask)
    IN [self |-> p.self, A |-> p.A, o_vec |-> p.o_vec,
        qs |-> update_posterior_states(p.A, p.o_vec, empirical_prior, num_iter_passed(self))]

\* likelihood matrices an agent is built with: exact and noisy observation of
\* a two-state factor
Likelihoods ==
    {<<<<FInt(1), FInt(0)>>, <<FInt(0), FInt(1)>>>>,
     <<<<Frac(3, 4), Frac(1, 4)>>, <<Frac(1, 4), Frac(3, 4)>>>>}

InferModalities == 1..2

\* the empirical prior over the two states
Priors == {<<Frac(1, 4), Frac(3, 4)>>}

\* inference_algo_params: the default, or the caller's own
AlgoParams == {INFERENCE_ALGO_PARAMS.fpi,
               [num_iter |-> 3, dF |-> FInt(1), dF_tol |-> Frac(1, 1000)]}

InitStates ==
    /\ \E A \in [InferModalities -> Likelihoods], params \in AlgoParams :
          stAgent = [A |-> A, num_obs |-> [m \in InferModalities |-> 2], onehot_obs |-> FALSE,
                     inference_algo_params |-> params]
    /\ stCall = NotInferred
    /\ built = NotBuilt
    /\ outcome = NoOutcome
    /\ actAgent = NoAgent
    /\ codec = Idle
    /\ heap = <<>>
    /\ lastCall = NotLearned
    /\ probs = NoProbs
    /\ polCall = NoPolicyCall
    /\ fpi = NoInference

\* agent.infer_states(observations, empirical_prior, mask = mask)
InferStates ==
    /\ stCall.n < MaxInferCalls
    /\ \E observations \in [InferModalities -> 0..1], empirical_prior \in Priors,
          mask \in {None} \cup {Some(v) : v \in [InferModalities -> 0..1]} :
          LET r == infer_states(stAgent, observations, empirical_prior, mask)
          IN /\ stAgent' = r.self
             /\ stCall' = [n |-> stCall.n + 1, mask |-> mask, observations |-> observations,
                           prior |-> empirical_prior,
                           A_before |-> stAgent.A, A |-> r.A, o_vec |-> r.o_vec, qs |-> r.qs]
    /\ UNCHANGED <<built, outcome, actAgent, codec, heap, lastCall, probs, polCall, fpi>>

NextStates == InferStates

SpecStates == InitStates /\ [][NextStates]_vars

(***************************************************************************)
(* Claims about state inference (SpecStates).                              *)
(***************************************************************************)
\* C1: infer_states never changes the agent's likelihood tensors: after each
\* call, masked or not, the agent's A equals its A before the call.
C1_InferStatesKeepsA ==
    stCall.n > 0 => stAgent.A = stCall.A_before

(***************************************************************************)
(* The fixed-point iteration of one infer_states call, step by step.  The   *)
(* call is mapped over the batch: every batch element runs the same update  *)
(* on its own observation, with the iteration budget fixed before the run.  *)
(***************************************************************************)
\* the batch elements of the agent
Batch == 1..2

\* the observations one batch element may be given
BatchObservations == {<<0, 0>>, <<1, 0>>}

InitFpi ==
    /\ \E A \in [InferModalities -> Likelihoods], params \in AlgoParams :
          stAgent = [A |-> A, num_obs |-> [m \in InferModalities |-> 2], onehot_obs |-> FALSE,
                     inference_algo_params |-> params]
    /\ fpi = NoInference
    /\ stCall = NotInferred
    /\ built = NotBuilt
    /\ outcome = NoOutcome
    /\ actAgent = NoAgent
    /\ codec = Idle
    /\ heap = <<>>
    /\ lastCall = NotLearned
    /\ probs = NoProbs
    /\ polCall = NoPolicyCall

\* vmap(infer_states)(A, self.B, o_vec, past_actions, prior = empirical_prior):
\* the iteration budget is the num_iter bound by partial(...), the likelihood of
\* each element's observation is computed once, before the iterations, and the
\* posterior of every batch element starts at its prior
BeginInference ==
    /\ fpi.stage = "none"
    /\ \E observations \in [Batch -> BatchObservations], empirical_prior \in Priors,
          early_stop \in BOOLEAN :
          fpi' = [stage |-> "running",
                  num_iter |-> num_iter_passed(stAgent),
                  early_stop |-> early_stop,
                  A |-> stAgent.A,
                  o_vec |-> [b \in Batch |-> prepare(stAgent, observations[b], None).o_vec],
                  ll |-> [b \in Batch |->
                            joint_likelihood(stAgent.A,
                                             prepare(stAgent, observations[b], None).o_vec,
                                             DOMAIN empirical_prior)],
                  prior |-> empirical_prior,
                  it |-> [b \in Batch |-> 0],
                  q |-> [b \in Batch |-> empirical_prior],
                  stopped |-> [b \in Batch |-> FALSE]]
    /\ UNCHANGED <<built, outcome, actAgent, codec, stAgent, stCall, heap, lastCall, probs,
                   polCall>>

\* one iteration of batch element b.  The free-energy change is below the
\* tolerance when the posterior did not move; when it moved, either outcome of
\* the comparison is possible.  With early stopping enabled an element whose
\* change has been below the tolerance keeps its posterior.
Iterate(b) ==
    /\ fpi.stage = "running"
    /\ fpi.it[b] < fpi.num_iter
    /\ \E q_new \in {IF fpi.early_stop /\ fpi.stopped[b] THEN fpi.q[b]
                      ELSE fpi_update(fpi.ll[b], fpi.prior, fpi.q[b])} :
          \E below \in (IF q_new = fpi.q[b] THEN {TRUE} ELSE BOOLEAN) :
             fpi' = [fpi EXCEPT !.it[b] = @ + 1,
                                !.q[b] = q_new,
                                !.stopped[b] = @ \/ (fpi.early_stop /\ below)]
    /\ UNCHANGED <<built, outcome, actAgent, codec, stAgent, stCall, heap, lastCall, probs,
                   polCall>>

\* the mapped call returns once every batch element has used up the budget
FinishInference ==
    /\ fpi.stage = "running"
    /\ \A b \in Batch : fpi.it[b] = fpi.num_iter
    /\ fpi' = [fpi EXCEPT !.stage = "done"]
    /\ UNCHANGED <<built, outcome, actAgent, codec, stAgent, stCall, heap, lastCall, probs,
                   polCall>>

NextFpi == BeginInference \/ (\E b \in Batch : Iterate(b)) \/ FinishInference

\* the computation is pure and never blocks: a step that can be taken is taken
SpecFpi == InitFpi /\ [][NextFpi]_vars /\ WF_vars(NextFpi)

(***************************************************************************)
(* Claims about the fixed-point iteration (SpecFpi).                        *)
(***************************************************************************)
IterationsAreTheConfiguredNumber ==
    fpi.stage = "done" =>
        \A b \in Batch :
            /\ fpi.it[b] = stAgent.inference_algo_params.num_iter
            /\ stAgent.inference_algo_params = INFERENCE_ALGO_PARAMS.fpi => fpi.it[b] = 16
            /\ fpi.q[b] = update_posterior_states(fpi.A, fpi.o_vec[b], fpi.prior,
                                                  stAgent.inference_algo_params.num_iter)

StoppedElementKeepsPosterior ==
    (fpi.stage = "running" /\ fpi'.stage = "running") =>
        \A b \in Batch : (fpi.early_stop /\ fpi.stopped[b]) =>
            /\ fpi'.q[b] = fpi.q[b]
            /\ fpi'.stopped[b]

Half == Frac(1, 2)

\* beliefs over the two states
Beliefs == {<<FInt(1), FInt(0)>>, <<FInt(0), FInt(1)>>, <<Half, Half>>}

\* histories of beliefs, one per time step (the axis x[:, t] of qs)
BeliefHistories == {<<q>> : q \in Beliefs} \cup {<<q1, q2>> : q1 \in Beliefs, q2 \in Beliefs}

\* likelihoods: each state shows its own observation, or the other one
PolicyLikelihoods ==
    {<<<<FInt(1), FInt(0)>>, <<FInt(0), FInt(1)>>>>,
     <<<<FInt(0), FInt(1)>>, <<FInt(1), FInt(0)>>>>}

\* transitions: action 0 stays; action 1 switches the state, or forgets it
PolicyTransitions ==
    {<<<<<<FInt(1), FInt(0)>>, <<FInt(0), FInt(1)>>>>, <<<<FInt(0), FInt(1)>>, <<FInt(1), FInt(0)>>>>>>,
     <<<<<<FInt(1), Half>>, <<FInt(0), Half>>>>, <<<<FInt(0), Half>>, <<FInt(1), Half>>>>>>}

\* preferences over the two observations, in units of ln 2
Preferences == {<<1, 0>>, <<0, 1>>, <<0, 0>>, <<1, -1>>}

\* E = jnp.ones((self.batch_size, len(self.policies))) / len(self.policies)
default_E(policies) == [p \in DOMAIN policies |-> Frac(1, Len(policies))]

\* a prior over policies that is not uniform
skewed_E(policies) ==
    [p \in DOMAIN policies |-> Frac(p, (Len(policies) * (Len(policies) + 1)) \div 2)]

\* agents as Agent(A, B, C, E = ..., policy_len = ..., gamma = ..., use_utility = ...,
\* use_states_info_gain = ...) builds them: control_algo "vanilla", no pA or pB,
\* use_param_info_gain and use_inductive left at False
PolicyAgents ==
    {[A |-> A, B |-> B, C |-> C,
      policies |-> construct_policies(<<2>>, <<2>>, policy_len, <<0>>),
      E |-> IF E_given THEN skewed_E(construct_policies(<<2>>, <<2>>, policy_len, <<0>>))
            ELSE default_E(construct_policies(<<2>>, <<2>>, policy_len, <<0>>)),
      gamma |-> gamma,
      use_utility |-> use_utility,
      use_states_info_gain |-> use_states_info_gain,
      use_param_info_gain |-> FALSE,
      use_inductive |-> FALSE,
      control_algo |-> "vanilla"] :
        A \in PolicyLikelihoods, B \in PolicyTransitions, C \in Preferences,
        policy_len \in 1..2, E_given \in BOOLEAN, gamma \in {0, 2},
        use_utility \in BOOLEAN, use_states_info_gain \in BOOLEAN}

\* the states expected after action u: B[:, :, u] applied to the belief q
expected_states(B, q, u) ==
    Vec([s_next \in DOMAIN B |-> FSum([st \in DOMAIN q |-> FMul(B[s_next][st][u + 1], q[st])])])

\* the observations expected in the states q
expected_obs(A, q) ==
    Vec([o \in DOMAIN A |-> FSum([st \in DOMAIN q |-> FMul(A[o][st], q[st])])])

\* the expected preference of the observations qo: the sum of qo[o] * C[o]
expected_utility(qo, C) == FSum([o \in DOMAIN qo |-> FMul(qo[o], FInt(C[o]))])

\* the information the observations qo carry about the state, in units of ln 2:
\* every state shows one observation, so it is the entropy of qo
states_info_gain(qo) == IF \E o \in DOMAIN qo : qo[o] = FInt(1) THEN FInt(0) ELSE FInt(1)

\* the negative expected free energy of one policy from its step t on
RECURSIVE neg_efe_from(_, _, _, _)
neg_efe_from(self, policy, q, t) ==
    IF t > Len(policy) THEN FInt(0)
    ELSE LET q_next == expected_states(self.B, q, policy[t][1])
             qo == expected_obs(self.A, q_next)
         IN FAdd(FAdd(IF self.use_utility THEN expected_utility(qo, self.C) ELSE FInt(0),
                      IF self.use_states_info_gain THEN states_info_gain(qo) ELSE FInt(0)),
                 neg_efe_from(self, policy, q_next, t + 1))

\* 2 ^ k for an integer k of either sign
RECURSIVE Exp2(_)
Exp2(k) == IF k = 0 THEN FInt(1)
           ELSE IF k > 0 THEN FMul(FInt(2), Exp2(k - 1))
           ELSE FMul(Half, Exp2(k + 1))

\* the whole number a rational is
Whole(x) == CHOOSE k \in -64..64 : x = FInt(k)

\* control.update_posterior_policies_inductive(policies, qs, A, B, C, E, pA, pB, ...,
\* gamma, use_utility, use_states_info_gain, use_param_info_gain, use_inductive):
\* G per policy and q_pi = softmax(gamma * G + log E)
update_posterior_policies_inductive(self, qs) ==
    LET G == Vec([p \in DOMAIN self.policies |-> neg_efe_from(self, self.policies[p], qs, 1)])
    IN [q_pi |-> normalise([p \in DOMAIN self.policies |->
                               FMul(self.E[p], Exp2(Whole(FMul(FInt(self.gamma), G[p]))))]),
        G |-> G]

\* Agent.infer_policies_inductive
infer_policies_inductive(self, qs) == update_posterior_policies_inductive(self, qs)

\* Agent.infer_policies with the belief of the first time step, x[:, 0]
infer_policies_from_first_belief(self, qs) == infer_policies_inductive(self, qs[1])

\* Agent.infer_policies: latest_belief is x[:, -1]; the agents here have
\* control_algo "vanilla"
infer_policies(self, qs) == infer_policies_inductive(self, qs[Len(qs)])

InitPolicies ==
    /\ stAgent \in PolicyAgents
    /\ polCall = NoPolicyCall
    /\ fpi = NoInference
    /\ stCall = NotInferred
    /\ built = NotBuilt
    /\ outcome = NoOutcome
    /\ actAgent = NoAgent
    /\ codec = Idle
    /\ heap = <<>>
    /\ lastCall = NotLearned
    /\ probs = NoProbs

\* q_pi, G = agent.infer_policies(qs); the call leaves the agent as it is, and a
\* run records one call
InferPolicies ==
    /\ polCall.n = 0
    /\ \E qs \in BeliefHistories :
          LET r == infer_policies(stAgent, qs)
          IN polCall' = [n |-> 1, qs |-> qs, q_pi |-> r.q_pi, G |-> r.G]
    /\ UNCHANGED <<built, outcome, actAgent, codec, stAgent, stCall, heap, lastCall, probs, fpi>>

NextPolicies == InferPolicies

SpecPolicies == InitPolicies /\ [][NextPolicies]_vars

(***************************************************************************)
(* Claims about policy inference (SpecPolicies).                            *)
(***************************************************************************)
\* the expected C of the observations predicted under policy p from the latest
\* belief of the recorded call, summed over the steps of the policy
RECURSIVE ExpectedPreferenceFrom(_, _, _)
ExpectedPreferenceFrom(policy, q, t) ==
    IF t > Len(policy) THEN FInt(0)
    ELSE LET q_next == expected_states(stAgent.B, q, policy[t][1])
         IN FAdd(expected_utility(expected_obs(stAgent.A, q_next), stAgent.C),
                 ExpectedPreferenceFrom(policy, q_next, t + 1))

ExpectedPreference(p) ==
    ExpectedPreferenceFrom(stAgent.policies[p], polCall.qs[Len(polCall.qs)], 1)

UtilityOnly ==
    /\ stAgent.use_utility
    /\ ~stAgent.use_states_info_gain
    /\ ~stAgent.use_param_info_gain
    /\ ~stAgent.use_inductive

UniformE == \A p, q \in DOMAIN stAgent.E : stAgent.E[p] = stAgent.E[q]

dirichlet_expected_value_A(pA) ==
    [o \in DOMAIN pA |-> [st \in DOMAIN pA[o] |->
        FDiv(pA[o][st], FSum([k \in DOMAIN pA |-> pA[k][st]]))]]

dirichlet_expected_value_B(pB) ==
    [n \in DOMAIN pB |-> [st \in DOMAIN pB[n] |-> [u \in DOMAIN pB[n][st] |->
        FDiv(pB[n][st][u], FSum([k \in DOMAIN pB |-> pB[k][st][u]]))]]]

\* learning.update_obs_likelihood_dirichlet: pA + lr * sum_t o_t (x) qs_t
update_obs_likelihood_dirichlet(pA, o_vec_seq, beliefs, lr) ==
    [o \in DOMAIN pA |-> [st \in DOMAIN pA[o] |->
        FAdd(pA[o][st],
             FMul(lr, FSum([t \in DOMAIN o_vec_seq |->
                              FMul(o_vec_seq[t][o], beliefs[t][st])])))]]

\* learning.update_state_likelihood_dirichlet:
\* pB + lr * sum_t qs_{t+1} (x) qs_t (x) action_t
update_state_likelihood_dirichlet(pB, beliefs, actions_onehot, lr) ==
    [n \in DOMAIN pB |-> [st \in DOMAIN pB[n] |-> [u \in DOMAIN pB[n][st] |->
        FAdd(pB[n][st][u],
             FMul(lr, FSum([t \in DOMAIN actions_onehot |->
                              FMul(FMul(beliefs[t + 1][n], beliefs[t][st]),
                                   actions_onehot[t][u])])))]]]

\* control.generate_I_matrix: I[1] = H and I[k + 1][s] = 1 when some action takes
\* s with probability above the threshold to a state s_next with I[k][s_next] = 1
generate_I_matrix(H, B, threshold, depth) ==
    LET reach(st, n) == \E u \in DOMAIN B[n][st] : FLess(threshold, B[n][st][u])
        RECURSIVE level(_)
        level(k) == IF k = 1 THEN H
                    ELSE [st \in DOMAIN H |->
                            IF \E n \in DOMAIN H : reach(st, n) /\ level(k - 1)[n] = 1
                            THEN 1 ELSE 0]
    IN [k \in 1..depth |-> level(k)]

\* the body of infer_parameters generating I from the B of the agent it is
\* called on instead of the updated B
learn_I_from_old_B(self, call, lr_pA, lr_pB) ==
    LET o_vec_seq == [t \in DOMAIN call.outcomes |-> one_hot(call.outcomes[t], 2)]
        qA == update_obs_likelihood_dirichlet(self.pA, o_vec_seq, call.beliefs, lr_pA)
        E_qA == dirichlet_expected_value_A(qA)
        agent1 == IF self.learn_A THEN [self EXCEPT !.A = E_qA, !.pA = qA] ELSE self
        actions_onehot == [t \in DOMAIN call.actions |-> one_hot(call.actions[t], 2)]
        qB == update_state_likelihood_dirichlet(self.pB, call.beliefs, actions_onehot, lr_pB)
        E_qB == dirichlet_expected_value_B(qB)
        I_updated == IF self.use_inductive /\ self.H.some
                     THEN generate_I_matrix(self.H.v, self.B, self.inductive_threshold,
                                            self.inductive_depth)
                     ELSE self.I
    IN IF self.learn_B THEN [agent1 EXCEPT !.B = E_qB, !.pB = qB, !.I = I_updated]
       ELSE agent1

\* the body of Agent.infer_parameters with the learning rates lr_pA and lr_pB:
\* the agent it returns (tree_at builds a new agent and leaves its argument alone)
learn(self, call, lr_pA, lr_pB) ==
    LET o_vec_seq == [t \in DOMAIN call.outcomes |-> one_hot(call.outcomes[t], 2)]
        qA == update_obs_likelihood_dirichlet(self.pA, o_vec_seq, call.beliefs, lr_pA)
        E_qA == dirichlet_expected_value_A(qA)
        agent1 == IF self.learn_A THEN [self EXCEPT !.A = E_qA, !.pA = qA] ELSE self
        actions_onehot == [t \in DOMAIN call.actions |-> one_hot(call.actions[t], 2)]
        qB == update_state_likelihood_dirichlet(self.pB, call.beliefs, actions_onehot, lr_pB)
        E_qB == dirichlet_expected_value_B(qB)
        I_updated == IF self.use_inductive /\ self.H.some
                     THEN generate_I_matrix(self.H.v, E_qB, self.inductive_threshold,
                                            self.inductive_depth)
                     ELSE self.I
    IN IF self.learn_B THEN [agent1 EXCEPT !.B = E_qB, !.pB = qB, !.I = I_updated]
       ELSE agent1

\* infer_parameters that does not pass its learning rates on (lr = 1.0, the default)
infer_parameters_default_lr(self, call) ==
    [self |-> self, agent |-> learn(self, call, FInt(1), FInt(1))]

\* infer_parameters that assigns the new tensors to self
infer_parameters_in_place(self, call) ==
    [self |-> learn(self, call, call.lr_pA, call.lr_pB),
     agent |-> learn(self, call, call.lr_pA, call.lr_pB)]

\* Agent.infer_parameters: the agent it was called on, after the call, and the
\* agent it returns
infer_parameters(self, call) ==
    [self |-> self, agent |-> learn(self, call, call.lr_pA, call.lr_pB)]

Ones2 == <<FInt(1), FInt(1)>>

\* agents with use_inductive set: state 0 is the goal, and the counts make a
\* transition from state 1 to state 0 rarer than inductive_threshold; I comes
\* from H (lines 267-268) or was given without H (lines 269-270)
InductiveAgents ==
    LET pA == <<<<FInt(2), FInt(1)>>, <<FInt(1), FInt(2)>>>>
        rare == <<Frac(1, 10), Frac(1, 10)>>
        pB == <<<<Ones2, rare>>, <<Ones2, Ones2>>>>
        B == dirichlet_expected_value_B(pB)
        goal == <<1, 0>>
    IN {[A |-> dirichlet_expected_value_A(pA), pA |-> pA, B |-> B, pB |-> pB,
         H |-> IF withH THEN Some(goal) ELSE None,
         I |-> generate_I_matrix(goal, B, Frac(1, 10), 2),
         learn_A |-> TRUE, learn_B |-> lb, use_inductive |-> TRUE,
         inductive_threshold |-> Frac(1, 10), inductive_depth |-> 2] :
          withH \in BOOLEAN, lb \in BOOLEAN}
\* an agent's counts and tensors at construction: A and B are the Dirichlet
\* means of pA and pB, or tensors given independently of them
InitialAgents ==
    LET pA == <<<<FInt(2), FInt(1)>>, <<FInt(1), FInt(2)>>>>
        pB == <<<<Ones2, Ones2>>, <<Ones2, Ones2>>>>
        eye == <<<<FInt(1), FInt(0)>>, <<FInt(0), FInt(1)>>>>
        stay == <<<<Ones2, <<FInt(0), FInt(0)>>>>, <<<<FInt(0), FInt(0)>>, Ones2>>>>
    IN {[A |-> A, pA |-> pA, B |-> B, pB |-> pB,
         H |-> None, I |-> <<<<0, 0>>>>,
         learn_A |-> la, learn_B |-> lb, use_inductive |-> FALSE,
         inductive_threshold |-> Frac(1, 10), inductive_depth |-> 1] :
          A \in {dirichlet_expected_value_A(pA), eye},
          B \in {dirichlet_expected_value_B(pB), stay},
          la \in BOOLEAN, lb \in BOOLEAN}
       \cup InductiveAgents

\* belief, outcome and action sequences: two time steps, one action
Trajectories ==
    {[beliefs |-> <<<<FInt(1), FInt(0)>>, <<FInt(0), FInt(1)>>>>,
      outcomes |-> <<0, 1>>, actions |-> <<1>>],
     [beliefs |-> <<<<FInt(0), FInt(1)>>, <<Frac(1, 2), Frac(1, 2)>>>>,
      outcomes |-> <<1, 1>>, actions |-> <<0>>]}

LearningRates == {FInt(0), FInt(1)}

InitLearn ==
    /\ \E ag \in InitialAgents : heap = <<ag>>
    /\ lastCall = NotLearned
    /\ built = NotBuilt
    /\ outcome = NoOutcome
    /\ actAgent = NoAgent
    /\ codec = Idle
    /\ stAgent = NoAgent
    /\ stCall = NotInferred
    /\ probs = NoProbs
    /\ polCall = NoPolicyCall
    /\ fpi = NoInference

\* new_agent = heap[id].infer_parameters(beliefs, outcomes, actions, lr_pA, lr_pB)
InferParameters ==
    /\ lastCall.n < MaxLearnCalls
    /\ \E id \in DOMAIN heap, tr \in Trajectories, lr_pA \in LearningRates,
          lr_pB \in LearningRates :
          LET call == [n |-> lastCall.n + 1, self |-> id, agent |-> Len(heap) + 1,
                       lr_pA |-> lr_pA, lr_pB |-> lr_pB, beliefs |-> tr.beliefs,
                       outcomes |-> tr.outcomes, actions |-> tr.actions]
              r == infer_parameters(heap[id], call)
          IN /\ heap' = Append([heap EXCEPT ![id] = r.self], r.agent)
             /\ lastCall' = call
    /\ UNCHANGED <<built, outcome, actAgent, codec, stAgent, stCall, probs, polCall, fpi>>

NextLearn == InferParameters

SpecLearn == InitLearn /\ [][NextLearn]_vars

(***************************************************************************)
(* Claims about parameter learning (SpecLearn).                            *)
(***************************************************************************)
ZeroRates == lastCall.n > 0 /\ lastCall.lr_pA = FInt(0) /\ lastCall.lr_pB = FInt(0)
CalledOn == heap[lastCall.self]
Returned == heap[lastCall.agent]

\* C4 as stated: infer_parameters with lr_pA = 0 and lr_pB = 0 returns an agent
\* whose pA, pB, A and B equal those of the agent it was called on, whatever
\* A, B, pA and pB that agent was constructed with.
C4_ZeroRatesKeepModel ==
    ZeroRates =>
        /\ Returned.pA = CalledOn.pA /\ Returned.pB = CalledOn.pB
        /\ Returned.A = CalledOn.A /\ Returned.B = CalledOn.B

\* C4 as amended: with lr_pA = 0 and lr_pB = 0 the returned agent's pA and pB
\* equal those of the agent it was called on; its A is the Dirichlet mean of pA
\* when learn_A is set and the old A otherwise, and likewise its B; so A and B
\* are unchanged when the old A and B were the Dirichlet means of pA and pB.
C4_ZeroRatesKeepCounts ==
    ZeroRates =>
        /\ Returned.pA = CalledOn.pA /\ Returned.pB = CalledOn.pB
        /\ Returned.A = IF CalledOn.learn_A THEN dirichlet_expected_value_A(CalledOn.pA)
                        ELSE CalledOn.A
        /\ Returned.B = IF CalledOn.learn_B THEN dirichlet_expected_value_B(CalledOn.pB)
                        ELSE CalledOn.B
        /\ (/\ CalledOn.A = dirichlet_expected_value_A(CalledOn.pA)
            /\ CalledOn.B = dirichlet_expected_value_B(CalledOn.pB))
           => (Returned.A = CalledOn.A /\ Returned.B = CalledOn.B)

\* C4 witness: a call with both rates 0 on an agent that learns A and B, whose
\* counts an earlier call has already changed
C4_Witness ==
    /\ ZeroRates
    /\ CalledOn.learn_A /\ CalledOn.learn_B
    /\ lastCall.self > 1
    /\ CalledOn.pA # heap[1].pA /\ CalledOn.pB # heap[1].pB
    /\ Returned.A = CalledOn.A /\ Returned.B = CalledOn.B

\* C5: infer_parameters does not modify the agent it is called on (nor any other
\* agent): every agent keeps its A, pA, B, pB and I, and the updated values exist
\* only in the returned agent, which carries the A-side and the B-side update
\* together.
C5_LearningIsFunctional ==
    [][/\ \A id \in DOMAIN heap : id \in DOMAIN heap' /\ heap'[id] = heap[id]
       /\ LET self == heap[lastCall'.self]
              new == heap'[lastCall'.agent]
              o_vec_seq == [t \in DOMAIN lastCall'.outcomes |->
                               one_hot(lastCall'.outcomes[t], 2)]
              actions_onehot == [t \in DOMAIN lastCall'.actions |->
                                    one_hot(lastCall'.actions[t], 2)]
          IN /\ lastCall'.agent \notin DOMAIN heap
             /\ self.learn_A =>
                   new.pA = update_obs_likelihood_dirichlet(
                               self.pA, o_vec_seq, lastCall'.beliefs, lastCall'.lr_pA)
             /\ self.learn_B =>
                   new.pB = update_state_likelihood_dirichlet(
                               self.pB, lastCall'.beliefs, actions_onehot, lastCall'.lr_pB)
             /\ ~self.learn_A => (new.pA = self.pA /\ new.A = self.A)
             /\ ~self.learn_B => (new.pB = self.pB /\ new.B = self.B /\ new.I = self.I)
      ]_vars

\* C5 witness: a call with non-zero rates on an agent that learns A and B
\* returned an agent with new pA, A, pB and B, and the agent called on is as
\* it was constructed
C5_Witness ==
    /\ lastCall.n > 0 /\ lastCall.self = 1
    /\ CalledOn.learn_A /\ CalledOn.learn_B
    /\ Returned.pA # CalledOn.pA /\ Returned.pB # CalledOn.pB
    /\ Returned.A # CalledOn.A /\ Returned.B # CalledOn.B
    /\ CalledOn \in InitialAgents

RECURSIVE KeptFrom(_, _)
KeptFrom(mask, i) ==
    IF i > Len(mask) THEN <<>>
    ELSE (IF mask[i] = 1 THEN <<i>> ELSE <<>>) \o KeptFrom(mask, i + 1)

\* the posterior of the recorded call computed from the modalities in kept alone,
\* each with the likelihood the agent held before the call and its one-hot observation
PosteriorFrom(kept) ==
    update_posterior_states(
        [k \in 1..Len(kept) |-> stCall.A_before[kept[k]]],
        [k \in 1..Len(kept) |-> one_hot(stCall.observations[kept[k]], stAgent.num_obs[kept[k]])],
        stCall.prior, num_iter_passed(stAgent))

IsUniform(vec, n) == \A k \in DOMAIN vec : vec[k] = Frac(1, n)

\* C14: in infer_states a modality with mask value 0 has its observation vector
\* and its likelihood replaced by the uniform value 1/num_obs[m], its likelihood
\* contribution is the same for every hidden state and the posterior equals the
\* one computed without that modality; a modality with mask value 1 is used
\* exactly as when no mask is given
C14_MaskedModalityIsExcluded ==
    (stCall.n > 0 /\ stCall.mask.some) =>
        LET mask == stCall.mask.v
            unmasked == infer_states([stAgent EXCEPT !.A = stCall.A_before],
                                     stCall.observations, stCall.prior, None)
        IN /\ \A m \in DOMAIN mask : mask[m] = 0 =>
                 /\ IsUniform(stCall.o_vec[m], stAgent.num_obs[m])
                 /\ \A o \in DOMAIN stCall.A[m] : IsUniform(stCall.A[m][o], stAgent.num_obs[m])
                 /\ \A s1, s2 \in DOMAIN stCall.prior :
                        likelihood(stCall.A[m], stCall.o_vec[m], s1)
                            = likelihood(stCall.A[m], stCall.o_vec[m], s2)
           /\ \A m \in DOMAIN mask : mask[m] = 1 =>
                 /\ stCall.A[m] = unmasked.A[m]
                 /\ stCall.o_vec[m] = unmasked.o_vec[m]
           /\ stCall.qs = PosteriorFrom(KeptFrom(mask, 1))
           /\ (\A m \in DOMAIN mask : mask[m] = 1) => stCall.qs = unmasked.qs

\* a call that masks an informative first modality and keeps the second: its
\* posterior differs from the one all modalities give
C14_Witness ==
    /\ stCall.n > 0
    /\ stCall.mask = Some(<<0, 1>>)
    /\ \E o \in DOMAIN stCall.A_before[1] : ~IsUniform(stCall.A_before[1][o], 2)
    /\ stCall.qs = PosteriorFrom(<<2>>)
    /\ stCall.qs # PosteriorFrom(<<1, 2>>)


====
